---- MODULE Spec2Model ----
(* Verification model of the AI receptionist (src/app): the intent         *)
(* classifier and the TTS cache of ai_handler.py, and the ARI dialog       *)
(* engine of ari_handler.py.                                               *)
EXTENDS Integers, Sequences, FiniteSets, TLC

(***************************************************************************)
(* Bounds                                                                  *)
(***************************************************************************)
MaxReplyLen == 3
NumCallers == 3
NumChunks == 1
NumChannels == 1
MaxInbox == 1
MaxCalls == 2
MaxConv == 4
NumOtherChannels == 1

(***************************************************************************)
(* Texts.  A text is a sequence of characters; a fixed phrase of the       *)
(* program is kept as one opaque character.                                *)
(***************************************************************************)
Alphabet == {"V", "v", "S", "s", " "}

\* Python None where a Service is expected
None == [extension |-> "None", name |-> <<"None">>]

lower(c) == CASE c = "V" -> "v" [] c = "S" -> "s" [] OTHER -> c

isspace(c) == c = " "

str_lower(s) == [i \in 1..Len(s) |-> lower(s[i])]

RECURSIVE lstrip(_)
lstrip(s) == IF s # <<>> /\ isspace(Head(s)) THEN lstrip(Tail(s)) ELSE s

RECURSIVE rstrip(_)
rstrip(s) ==
    IF s # <<>> /\ isspace(s[Len(s)]) THEN rstrip(SubSeq(s, 1, Len(s) - 1)) ELSE s

str_strip(s) == rstrip(lstrip(s))

\* Python's `needle in hay`
str_in(needle, hay) ==
    \E k \in 0..(Len(hay) - Len(needle)) :
        SubSeq(hay, k + 1, k + Len(needle)) = needle

(***************************************************************************)
(* config.company.services: the ordered service directory                  *)
(***************************************************************************)
Services ==
    << [extension |-> "101", name |-> <<"V", "s">>],
       [extension |-> "102", name |-> <<"S">>] >>

TransferAnnouncement(name) ==
    <<"Je vous transfere au ">> \o name \o <<". Un instant s'il vous plait.">>

(***************************************************************************)
(* AIHandler.understand_intent, from the chat reply on                     *)
(***************************************************************************)
service_matches_case_sensitive(service, ai_response) ==
    str_in(service.name, ai_response)

service_matches(service, ai_response) ==
    str_in(str_lower(service.name), str_lower(ai_response))

RECURSIVE match_from(_, _)
match_from(i, ai_response) ==
    IF i > Len(Services)
    THEN [service |-> None, response |-> ai_response]
    ELSE IF service_matches(Services[i], ai_response)
         THEN [service |-> Services[i],
               response |-> TransferAnnouncement(Services[i].name)]
         ELSE match_from(i + 1, ai_response)

understand_intent(content) == match_from(1, str_strip(content))

(***************************************************************************)
(* State                                                                   *)
(***************************************************************************)
VARIABLES
    content,      \* chat reply handed to the classifier under test
    result,       \* what understand_intent returned for it
    files,        \* audio_cache directory: text -> file on disk
    tts,          \* one record per text_to_speech invocation
    synth_count,  \* upstream audio.speech.create requests issued, per text
    sessions,     \* ARIHandler.sessions: channel_id -> CallSession
    created,      \* CallSession objects constructed so far
    ws,           \* where ARIHandler.start / connect_websocket stands
    prewarm_i,    \* next message of pre_generate_common_audio
    inbox,        \* events received on the WebSocket and not yet handled
    handler,      \* the suspended event handler, if any
    issued,       \* requests sent by the last step, in order
    log,          \* error and timeout log entries written by the last step
    notified      \* webhook posts made so far, per CallSession object

intent_vars == <<content, result>>
tts_vars == <<tts, synth_count>>
engine_vars == <<sessions, created, ws, prewarm_i, inbox, handler, issued, log, notified>>
vars == <<content, result, files, tts, synth_count, sessions, created, ws,
          prewarm_i, inbox, handler, issued, log, notified>>

(***************************************************************************)
(* Classifier under test (POST /test/intent)                               *)
(***************************************************************************)
RECURSIVE SeqsUpTo(_)
SeqsUpTo(n) ==
    IF n = 0 THEN {<<>>}
    ELSE LET shorter == SeqsUpTo(n - 1)
         IN  shorter \cup {Append(s, c) : s \in {x \in shorter : Len(x) = n - 1},
                                          c \in Alphabet}

Contents == SeqsUpTo(MaxReplyLen)

NoResult == [service |-> None, response |-> <<"pending">>]

IntentInit == content \in Contents /\ result = NoResult

test_intent ==
    /\ result = NoResult
    /\ result' = understand_intent(content)
    /\ UNCHANGED content

(***************************************************************************)
(* TTS cache: AIHandler.text_to_speech                                     *)
(***************************************************************************)
TtsTexts == {<<"V">>, <<"S">>}

Callers == 1..NumCallers

NoFile == [exists |-> FALSE, chunks |-> {}]
EmptyFile == [exists |-> TRUE, chunks |-> {}]
FullFile == [exists |-> TRUE, chunks |-> 1..NumChunks]

\* text_hash / cache_path: the path is a function of the text alone; the
\* digest is kept as the text it was taken of, so two texts never collide
cache_path(text) == <<"/app/audio_cache/">> \o text \o <<".wav">>

cache_hit_flag_inverted(use_cache, file) == ~use_cache /\ file.exists

cache_hit(use_cache, file) == use_cache /\ file.exists

NoCall == [pc |-> "idle", text |-> <<>>, use_cache |-> TRUE, offset |-> 0,
           late |-> FALSE, path |-> <<>>]

TtsInit ==
    /\ files = [t \in TtsTexts |-> NoFile]
    /\ tts = [c \in Callers |-> NoCall]
    /\ synth_count = [t \in TtsTexts |-> 0]

\* lines 62-76: fingerprint, cache lookup, then the upstream request is sent
tts_call(c, text, use_cache) ==
    /\ tts[c].pc = "idle"
    /\ LET late == \E d \in Callers :
                       tts[d].text = text /\ tts[d].pc \in {"returned", "raised"}
       IN  IF cache_hit(use_cache, files[text])
           THEN /\ tts' = [tts EXCEPT ![c] =
                        [pc |-> "returned", text |-> text, use_cache |-> use_cache,
                         offset |-> 0, late |-> late, path |-> cache_path(text)]]
                /\ UNCHANGED synth_count
           ELSE /\ tts' = [tts EXCEPT ![c] =
                        [pc |-> "synthesizing", text |-> text, use_cache |-> use_cache,
                         offset |-> 0, late |-> late, path |-> <<>>]]
                /\ synth_count' = [synth_count EXCEPT ![text] = @ + 1]
    /\ UNCHANGED files

\* line 71 raises
synth_raises(c) ==
    /\ tts[c].pc = "synthesizing"
    /\ tts' = [tts EXCEPT ![c].pc = "raised"]
    /\ UNCHANGED <<files, synth_count>>

\* line 71 returns; line 79 open(cache_path, "wb") creates or truncates the file
synth_returns(c) ==
    /\ tts[c].pc = "synthesizing"
    /\ files' = [files EXCEPT ![tts[c].text] = EmptyFile]
    /\ tts' = [tts EXCEPT ![c].pc = "writing"]
    /\ UNCHANGED synth_count

\* lines 80-81: one chunk of the stream is written at this writer's offset
\* (the file holds a chunk from the write on; buffering can only delay that)
write_chunk(c) ==
    /\ tts[c].pc = "writing"
    /\ tts[c].offset < NumChunks
    /\ files' = [files EXCEPT ![tts[c].text] =
                    [exists |-> TRUE, chunks |-> @.chunks \cup {tts[c].offset + 1}]]
    /\ tts' = [tts EXCEPT ![c].offset = @ + 1]
    /\ UNCHANGED synth_count

\* line 80 raises while streaming: the file stays as far as it was written
stream_raises(c) ==
    /\ tts[c].pc = "writing"
    /\ tts[c].offset < NumChunks
    /\ tts' = [tts EXCEPT ![c].pc = "raised"]
    /\ UNCHANGED <<files, synth_count>>

\* lines 83-84: the stream ended, the file is closed and the path returned
tts_return(c) ==
    /\ tts[c].pc = "writing"
    /\ tts[c].offset = NumChunks
    /\ tts' = [tts EXCEPT ![c].pc = "returned",
                         ![c].path = cache_path(tts[c].text)]
    /\ UNCHANGED <<files, synth_count>>

TtsNext ==
    \/ \E c \in Callers, text \in TtsTexts, use_cache \in BOOLEAN :
           tts_call(c, text, use_cache)
    \/ \E c \in Callers : synth_raises(c)
    \/ \E c \in Callers : synth_returns(c)
    \/ \E c \in Callers : write_chunk(c)
    \/ \E c \in Callers : stream_raises(c)
    \/ \E c \in Callers : tts_return(c)

(***************************************************************************)
(* Dialog engine: ari_handler.py                                           *)
(***************************************************************************)
Channels == 1..NumChannels

\* config.company.greeting and the fixed phrases of the dialog
Greeting == <<"Bonjour et bienvenue. Quel service souhaitez-vous joindre ?">>
Opener == <<"Le service est actuellement occupe. Puis-je prendre un message ? Quel est votre nom ?">>
Closer == <<"Merci pour ces informations. Nous vous rappellerons des que possible. Au revoir et bonne journee.">>
RetryPhrase == <<"Je n'ai pas compris. Pouvez-vous repeter s'il vous plait ?">>
GenericQuestion == <<"Pouvez-vous me donner plus de details ?">>

\* pre_generate_common_audio: common_messages, in order
common_messages ==
    << Greeting,
       <<"Je vous transfere. Un instant s'il vous plait.">>,
       <<"Le service est actuellement occupe. Puis-je prendre un message ?">>,
       <<"Puis-je avoir votre nom s'il vous plait ?">>,
       <<"Et votre societe ?">>,
       <<"Quel est le sujet de votre appel ?">>,
       Closer,
       RetryPhrase,
       <<"Au revoir et bonne journee.">> >>
    \o [i \in 1..Len(Services) |-> TransferAnnouncement(Services[i].name)]

\* config.n8n.webhook_url is set
WebhookConfigured == TRUE

(* What the upstream services may answer *)
Transcript == <<"transcript">>

Raise == [kind |-> "raise", content |-> <<>>]

\* chat replies to the classification prompt
IntentReplies ==
    {Raise} \cup {[kind |-> "reply", content |-> c] :
                     c \in {<<"v", "s">>, <<" ", "v", " ">>}}

EmptyDict == [k \in {} |-> ""]
Omitted == <<"omitted">>
Question == <<"Et votre societe ?">>

\* parsed JSON objects the chat model may return in a collection step
JsonReplies ==
    { [complete |-> TRUE,  info |-> [k \in {"nom"} |-> "Marie"], next_question |-> Omitted],
      [complete |-> FALSE, info |-> [k \in {"nom"} |-> "Marie"], next_question |-> Question],
      [complete |-> FALSE, info |-> [k \in {"nom"} |-> ""], next_question |-> Omitted],
      [complete |-> FALSE, info |-> EmptyDict, next_question |-> Question] }

NoJson == [complete |-> FALSE, info |-> EmptyDict, next_question |-> Omitted]

CollectReplies ==
    { [kind |-> "raise", json |-> NoJson], [kind |-> "not_json", json |-> NoJson] }
    \cup {[kind |-> "json", json |-> j] : j \in JsonReplies}

\* every text the engine may ask text_to_speech for
EngineTexts ==
    {common_messages[i] : i \in 1..Len(common_messages)}
    \cup {Opener, GenericQuestion, Question}
    \cup {understand_intent(r.content).response : r \in IntentReplies \ {Raise}}

(* CallSession and the events of the bus.  sid tells CallSession objects   *)
(* apart; caller_id is set once and only copied into requests, and is left *)
(* out.                                                                    *)
NewSession(sid) ==
    [sid |-> sid, state |-> "greeting", target_service |-> None,
     message_info |-> EmptyDict, conversation |-> <<>>, retry_count |-> 0]

Event(type, ch, uri) == [type |-> type, ch |-> ch, target_uri |-> uri]

EventTypes ==
    {"StasisStart", "StasisEnd", "PlaybackFinished", "RecordingFinished",
     "ChannelHangupRequest", "ChannelDestroyed", "ChannelDtmfReceived"}

\* channels of the bus that are not calls placed to the application: among
\* them the outbound leg that Originate creates with app=<app_name>, which
\* enters the application when the extension answers
OtherChannels == (NumChannels + 1)..(NumChannels + NumOtherChannels)

Events ==
    {Event(t, ch, "channel:") : t \in EventTypes, ch \in Channels}
    \cup {Event(t, ch, "bridge:") :
              t \in {"PlaybackFinished", "RecordingFinished"}, ch \in Channels}
    \cup {Event(t, ch, "channel:") :
              t \in EventTypes \ {"StasisStart"}, ch \in OtherChannels}

startswith_anything(target_uri) == TRUE

startswith_channel(target_uri) == target_uri = "channel:"

Idle == [pc |-> "idle", ch |-> 0]

Req(op, ch, text) == [op |-> op, ch |-> ch, text |-> text]

(* A handler run is computed on a record m of the state it reads and       *)
(* writes; each step returns the set of records it may leave.  m.raised    *)
(* says an exception is propagating, and the steps after it are skipped.   *)
Bind(ms, step(_)) == UNION {step(m) : m \in ms}

Machine ==
    [sessions |-> sessions, files |-> files, created |-> created,
     notified |-> notified, issued |-> <<>>, log |-> {}, raised |-> FALSE,
     suspended |-> FALSE]

\* AIHandler.text_to_speech run without interleaving
text_to_speech(m, text) ==
    IF m.raised THEN {m}
    ELSE IF cache_hit(TRUE, m.files[text]) THEN {m}
    ELSE LET sent == [m EXCEPT !.issued = Append(@, Req("synthesize", 0, text))]
         IN  {[sent EXCEPT !.raised = TRUE]}
             \cup {[sent EXCEPT !.raised = (n < NumChunks),
                                !.files[text] = [exists |-> TRUE, chunks |-> 1..n]] :
                      n \in 0..NumChunks}

\* one call-control request: it is sent, and a network error raises
http_request(m, op, ch, text) ==
    IF m.raised THEN {m}
    ELSE LET sent == [m EXCEPT !.issued = Append(@, Req(op, ch, text))]
         IN  {sent, [sent EXCEPT !.raised = TRUE]}

answer_channel(m, ch) == http_request(m, "answer", ch, <<>>)

\* /app/audio_cache/<file>.wav -> custom/<file>
sound_path(audio_path) ==
    <<"custom/">> \o SubSeq(audio_path, 2, Len(audio_path) - 1)

play_audio(m, ch, audio_path) == http_request(m, "play", ch, sound_path(audio_path))

start_recording_as_hangup(m, ch) == http_request(m, "hangup", ch, <<>>)

start_recording(m, ch) == http_request(m, "record", ch, <<>>)

hangup_channel(m, ch) == http_request(m, "hangup", ch, <<>>)

speak(m, ch, text) ==
    Bind(text_to_speech(m, text), LAMBDA m1 : play_audio(m1, ch, cache_path(text)))

play_greeting(m, ch) == speak(m, ch, Greeting)

play_error_and_retry(m, ch) == speak(m, ch, RetryPhrase)

\* AIHandler.speech_to_text
speech_to_text(m) ==
    IF m.raised THEN {m}
    ELSE LET sent == [m EXCEPT !.issued = Append(@, Req("transcribe", 0, <<>>))]
         IN  {sent, [sent EXCEPT !.raised = TRUE]}

send_message_to_n8n(m, ch) ==
    IF m.raised \/ ~WebhookConfigured THEN m
    ELSE [m EXCEPT !.issued = Append(@, Req("notify", ch, <<>>)),
                   !.notified[m.sessions[ch].sid] = @ + 1]

append_turn(m, ch, role, text) ==
    IF m.raised THEN m
    ELSE [m EXCEPT !.sessions[ch].conversation =
                       Append(@, [role |-> role, content |-> text])]

\* dict.update
dict_update(old, new) ==
    [k \in DOMAIN old \cup DOMAIN new |-> IF k \in DOMAIN new THEN new[k] ELSE old[k]]

\* ARIHandler.start_message_collection
start_message_collection(m, ch) ==
    IF m.raised \/ ch \notin DOMAIN m.sessions THEN {m}
    ELSE LET m1 == [m EXCEPT !.sessions[ch].state = "collecting_message",
                             !.sessions[ch].conversation = <<>>]
         IN  Bind(text_to_speech(m1, Opener),
                  LAMBDA m2 : play_audio(append_turn(m2, ch, "assistant", Opener),
                                         ch, cache_path(Opener)))

\* AIHandler.collect_message_info, from the parsed reply on
collect_result(json) ==
    IF json.complete
    THEN [complete |-> TRUE, info |-> json.info, response |-> Closer]
    ELSE [complete |-> FALSE, info |-> json.info,
          response |-> IF json.next_question = Omitted THEN GenericQuestion
                       ELSE json.next_question]

\* lines 246-257 of handle_message_collection, for one result
collection_step(m, ch, res) ==
    LET m3 == [m EXCEPT !.sessions[ch].message_info = dict_update(@, res.info)]
        finish(m4) ==
            IF m4.raised THEN {m4}
            ELSE LET m5 == IF res.complete
                           THEN send_message_to_n8n(
                                    [m4 EXCEPT !.sessions[ch].state = "ending"], ch)
                           ELSE m4
                 IN  play_audio(append_turn(m5, ch, "assistant", res.response),
                                ch, cache_path(res.response))
    IN  Bind(text_to_speech(m3, res.response), finish)

\* ARIHandler.handle_message_collection
handle_message_collection(m, ch, transcript) ==
    IF m.raised \/ ch \notin DOMAIN m.sessions THEN {m}
    ELSE LET m1 == append_turn(m, ch, "user", transcript)
             m2 == [m1 EXCEPT !.issued = Append(@, Req("chat", 0, <<"collect">>))]
         IN  UNION { IF r.kind = "raise"
                     THEN {[m2 EXCEPT !.raised = TRUE]}
                     ELSE IF r.kind = "not_json"
                     THEN \* json.loads raises; the log entry of whoever catches
                          \* it carries error=str(e)
                          {[m2 EXCEPT !.raised = TRUE,
                                      !.log = @ \cup {"JSONDecodeError"}]}
                     ELSE collection_step(m2, ch, collect_result(r.json)) :
                     r \in CollectReplies }

RetryLimit == 3

retry_limit_reached_early(retry_count) == retry_count >= RetryLimit - 1

retry_limit_reached_late(retry_count) == retry_count > RetryLimit

retry_limit_reached(retry_count) == retry_count >= RetryLimit

\* ARIHandler.transfer_to_extension up to the Originate request being sent
transfer_to_extension(m, ch) ==
    IF m.raised \/ ch \notin DOMAIN m.sessions THEN {m}
    ELSE {[m EXCEPT !.issued = Append(@, Req("originate", ch,
                          <<"PJSIP/", m.sessions[ch].target_service.extension>>)),
                    !.suspended = TRUE]}

\* lines 208-231 of handle_service_choice, for one classification result
service_choice_step(m, ch, res) ==
    IF res.service # None
    THEN LET m2 == [m EXCEPT !.sessions[ch].target_service = res.service,
                             !.sessions[ch].state = "transferring"]
             transfer(m3) == transfer_to_extension(m3, ch)
         IN  Bind(speak(m2, ch, res.response), transfer)
    ELSE LET m2 == [m EXCEPT !.sessions[ch].retry_count = @ + 1]
         IN  IF retry_limit_reached(m2.sessions[ch].retry_count)
             THEN start_message_collection(m2, ch)
             ELSE speak(m2, ch, res.response)

\* ARIHandler.handle_service_choice
handle_service_choice(m, ch, transcript) ==
    IF m.raised \/ ch \notin DOMAIN m.sessions THEN {m}
    ELSE LET m1 == [m EXCEPT !.issued = Append(@, Req("chat", 0, <<"intent">>))]
         IN  UNION { IF r = Raise
                     THEN {[m1 EXCEPT !.raised = TRUE]}
                     ELSE service_choice_step(m1, ch, understand_intent(r.content)) :
                     r \in IntentReplies }

\* the except clause of on_recording_finished
recording_except(m, ch) ==
    IF ~m.raised THEN {m}
    ELSE play_error_and_retry(
             [m EXCEPT !.raised = FALSE,
                       !.log = @ \cup {"recording_processing_error"}], ch)

\* the except clause of transfer_to_extension
transfer_except(m, ch) ==
    IF ~m.raised THEN {m}
    ELSE start_message_collection(
             [m EXCEPT !.raised = FALSE, !.log = @ \cup {"transfer_error"}], ch)

dispatch_ending_too(state) ==
    IF state = "waiting_service_choice" THEN "service_choice"
    ELSE IF state \in {"collecting_message", "ending"} THEN "message_collection"
    ELSE "none"

\* which handler on_recording_finished dispatches to
dispatch(state) ==
    IF state = "waiting_service_choice" THEN "service_choice"
    ELSE IF state = "collecting_message" THEN "message_collection"
    ELSE "none"

\* ARIHandler.on_recording_finished
on_recording_finished(m, ev) ==
    IF ~startswith_channel(ev.target_uri) THEN {m}
    ELSE IF ev.ch \notin DOMAIN m.sessions THEN {m}
    ELSE LET body(m1) ==
                 IF m1.raised THEN {m1}
                 ELSE CASE dispatch(m1.sessions[ev.ch].state) = "service_choice" ->
                               handle_service_choice(m1, ev.ch, Transcript)
                        [] dispatch(m1.sessions[ev.ch].state) = "message_collection" ->
                               handle_message_collection(m1, ev.ch, Transcript)
                        [] OTHER -> {m1}
             except(m2) == recording_except(m2, ev.ch)
         IN  Bind(Bind(speech_to_text(m), body), except)

\* ARIHandler.on_playback_finished
on_playback_finished(m, ev) ==
    IF ~startswith_channel(ev.target_uri) THEN {m}
    ELSE IF ev.ch \notin DOMAIN m.sessions THEN {m}
    ELSE LET state == m.sessions[ev.ch].state
         IN  CASE state = "greeting" ->
                      start_recording(
                          [m EXCEPT !.sessions[ev.ch].state = "waiting_service_choice"],
                          ev.ch)
               [] state = "waiting_service_choice" -> start_recording(m, ev.ch)
               [] state = "collecting_message" -> start_recording(m, ev.ch)
               [] state = "ending" -> hangup_channel(m, ev.ch)
               [] OTHER -> {m}

on_stasis_start_keeps_session(m, ev) ==
    LET m1 == IF ev.ch \in DOMAIN m.sessions THEN m
              ELSE [m EXCEPT !.created = @ + 1,
                             !.sessions = (ev.ch :> NewSession(m.created + 1)) @@ @]
        greet(m2) == play_greeting(m2, ev.ch)
    IN  Bind(answer_channel(m1, ev.ch), greet)

\* ARIHandler.on_stasis_start
on_stasis_start(m, ev) ==
    LET m1 == [m EXCEPT !.created = @ + 1,
                        !.sessions = (ev.ch :> NewSession(m.created + 1)) @@ @]
        greet(m2) == play_greeting(m2, ev.ch)
    IN  Bind(answer_channel(m1, ev.ch), greet)

\* ARIHandler.on_channel_destroyed
on_channel_destroyed(m, ev) ==
    IF ev.ch \in DOMAIN m.sessions
    THEN {[m EXCEPT !.sessions = [c \in DOMAIN @ \ {ev.ch} |-> @[c]]]}
    ELSE {m}

\* on_stasis_end, on_hangup: a log line
on_stasis_end(m, ev) == {m}

on_hangup_pops(m, ev) == on_channel_destroyed(m, ev)

on_hangup(m, ev) == {m}

OriginateOk == 200

\* what POST /ari/channels may do: raise, or answer with a status and a body
OriginateOutcomes ==
    { [raises |-> TRUE, status |-> 0, body_ok |-> FALSE],
      [raises |-> FALSE, status |-> 200, body_ok |-> TRUE],
      [raises |-> FALSE, status |-> 200, body_ok |-> FALSE],
      [raises |-> FALSE, status |-> 204, body_ok |-> TRUE],
      [raises |-> FALSE, status |-> 500, body_ok |-> TRUE] }

\* the status field of the transfer_failed log entry
status_field(status) ==
    CASE status = 204 -> "status=204"
      [] status = 500 -> "status=500"
      [] OTHER -> "status=200"

\* transfer_to_extension from the Originate response to the ring wait
originate_response(m, ch, o) ==
    LET inner ==
            IF o.raises THEN {[m EXCEPT !.raised = TRUE]}
            ELSE IF o.status = OriginateOk
                 THEN IF o.body_ok
                      THEN {[m EXCEPT !.log = @ \cup {"transfer_initiated"},
                                      !.suspended = TRUE]}
                      ELSE {[m EXCEPT !.raised = TRUE]}
                 ELSE start_message_collection(
                          [m EXCEPT !.log = @ \cup {"transfer_failed",
                                                    status_field(o.status)}], ch)
        except1(m1) == transfer_except(m1, ch)
        except2(m2) == recording_except(m2, ch)
    IN  Bind(Bind(inner, except1), except2)

\* transfer_to_extension after asyncio.sleep(ring_timeout + 1)
ring_timeout(m, ch) ==
    LET inner ==
            IF ch \in DOMAIN m.sessions /\ m.sessions[ch].state = "transferring"
            THEN start_message_collection(
                     [m EXCEPT !.log = @ \cup {"transfer_timeout"}], ch)
            ELSE {m}
        except1(m1) == transfer_except(m1, ch)
        except2(m2) == recording_except(m2, ch)
    IN  Bind(Bind(inner, except1), except2)

(***************************************************************************)
(* Engine actions                                                          *)
(***************************************************************************)
EngineIdle ==
    /\ sessions = [c \in {} |-> NewSession(0)]
    /\ created = 0
    /\ ws = "prewarm"
    /\ prewarm_i = 1
    /\ inbox = <<>>
    /\ handler = Idle
    /\ issued = <<>>
    /\ log = {}
    /\ notified = [sid \in 1..MaxCalls |-> 0]

EngineInit ==
    /\ EngineIdle
    /\ files = [t \in EngineTexts |-> NoFile]
    /\ tts = [c \in Callers |-> NoCall]
    /\ synth_count = [t \in TtsTexts |-> 0]

\* what a step leaves when the handler run m ends, returns or suspends
Leave(m, rest, ch, pc) ==
    /\ sessions' = m.sessions
    /\ files' = m.files
    /\ created' = m.created
    /\ notified' = m.notified
    /\ issued' = m.issued
    /\ IF m.raised
       THEN \* the exception leaves handle_event: connect_websocket lines 73-75
            /\ ws' = "backoff"
            /\ inbox' = <<>>
            /\ handler' = Idle
            /\ log' = m.log \cup {"ari_connection_error"}
       ELSE /\ ws' = ws
            /\ inbox' = rest
            /\ handler' = IF m.suspended THEN [pc |-> pc, ch |-> ch] ELSE Idle
            /\ log' = m.log
    /\ UNCHANGED <<prewarm_i, intent_vars, tts_vars>>

Receives_reentrant(type) ==
    /\ ws = "connected"
    /\ inbox # <<>>
    /\ Head(inbox).type = type

\* handle_event takes the next message of the connection
Receives(type) ==
    /\ ws = "connected"
    /\ handler = Idle
    /\ inbox # <<>>
    /\ Head(inbox).type = type

StasisStart ==
    /\ Receives("StasisStart")
    /\ \E m \in on_stasis_start(Machine, Head(inbox)) :
           Leave(m, Tail(inbox), Head(inbox).ch, "idle")

StasisEnd ==
    /\ Receives("StasisEnd")
    /\ \E m \in on_stasis_end(Machine, Head(inbox)) :
           Leave(m, Tail(inbox), Head(inbox).ch, "idle")

ChannelHangupRequest ==
    /\ Receives("ChannelHangupRequest")
    /\ \E m \in on_hangup(Machine, Head(inbox)) :
           Leave(m, Tail(inbox), Head(inbox).ch, "idle")

ChannelDestroyed ==
    /\ Receives("ChannelDestroyed")
    /\ \E m \in on_channel_destroyed(Machine, Head(inbox)) :
           Leave(m, Tail(inbox), Head(inbox).ch, "idle")

PlaybackFinished ==
    /\ Receives("PlaybackFinished")
    /\ \E m \in on_playback_finished(Machine, Head(inbox)) :
           Leave(m, Tail(inbox), Head(inbox).ch, "idle")

RecordingFinished ==
    /\ Receives("RecordingFinished")
    /\ \E m \in on_recording_finished(Machine, Head(inbox)) :
           Leave(m, Tail(inbox), Head(inbox).ch, "originate")

\* handle_event: no handler for the event type
UnhandledEvent ==
    /\ Receives("ChannelDtmfReceived")
    /\ Leave(Machine, Tail(inbox), Head(inbox).ch, "idle")

\* the Originate request completes
OriginateResponse ==
    /\ handler.pc = "originate"
    /\ \E o \in OriginateOutcomes :
           \E m \in originate_response(Machine, handler.ch, o) :
               Leave(m, inbox, handler.ch, "ring_wait")

\* asyncio.sleep(ring_timeout + 1) returns
RingTimeout ==
    /\ handler.pc = "ring_wait"
    /\ \E m \in ring_timeout(Machine, handler.ch) :
           Leave(m, inbox, handler.ch, "idle")

\* the bus sends an event, which waits in the connection until it is read
CanSend(ev) ==
    /\ ev.type = "StasisStart" =>
           created + Cardinality({i \in 1..Len(inbox) : inbox[i].type = "StasisStart"})
               < MaxCalls
    /\ (ev.type = "RecordingFinished" /\ ev.ch \in DOMAIN sessions) =>
           Len(sessions[ev.ch].conversation)
             + 2 * (1 + Cardinality({i \in 1..Len(inbox) :
                                        inbox[i].type = "RecordingFinished"
                                        /\ inbox[i].ch = ev.ch}))
               <= MaxConv

BusSends ==
    /\ ws = "connected"
    /\ Len(inbox) < MaxInbox
    /\ \E ev \in Events : CanSend(ev) /\ inbox' = Append(inbox, ev)
    /\ UNCHANGED <<sessions, files, created, notified, issued, log, ws, handler,
                   prewarm_i, intent_vars, tts_vars>>

\* ARIHandler.start: one text_to_speech of pre_generate_common_audio
PreWarm ==
    /\ ws = "prewarm"
    /\ \E m \in text_to_speech(Machine, common_messages[prewarm_i]) :
           /\ files' = m.files
           /\ issued' = m.issued
           /\ IF m.raised
              THEN ws' = "dead" /\ prewarm_i' = prewarm_i
              ELSE /\ prewarm_i' = prewarm_i + 1
                   /\ ws' = IF prewarm_i = Len(common_messages)
                            THEN "connecting" ELSE "prewarm"
    /\ UNCHANGED <<sessions, created, notified, log, inbox, handler,
                   intent_vars, tts_vars>>

EngineUnchanged ==
    UNCHANGED <<sessions, files, created, notified, issued, handler, prewarm_i,
                intent_vars, tts_vars>>

\* websockets.connect succeeds
Connect ==
    /\ ws = "connecting"
    /\ ws' = "connected"
    /\ UNCHANGED <<inbox, log>>
    /\ EngineUnchanged

\* websockets.connect raises
ConnectFails ==
    /\ ws = "connecting"
    /\ ws' = "backoff"
    /\ log' = {"ari_connection_error"}
    /\ UNCHANGED inbox
    /\ EngineUnchanged

\* the connection breaks while the loop waits for a message
ConnectionError ==
    /\ ws = "connected" /\ handler = Idle /\ inbox = <<>>
    /\ ws' = "backoff"
    /\ log' = {"ari_connection_error"}
    /\ UNCHANGED inbox
    /\ EngineUnchanged

\* the peer closes the connection normally: the async for ends
ConnectionClosed ==
    /\ ws = "connected" /\ handler = Idle /\ inbox = <<>>
    /\ ws' = "connecting"
    /\ UNCHANGED <<inbox, log>>
    /\ EngineUnchanged

\* asyncio.sleep(5) returns
BackoffDone ==
    /\ ws = "backoff"
    /\ ws' = "connecting"
    /\ UNCHANGED <<inbox, log>>
    /\ EngineUnchanged

Next ==
    \/ PreWarm
    \/ Connect
    \/ ConnectFails
    \/ ConnectionError
    \/ ConnectionClosed
    \/ BackoffDone
    \/ BusSends
    \/ StasisStart
    \/ StasisEnd
    \/ ChannelHangupRequest
    \/ ChannelDestroyed
    \/ PlaybackFinished
    \/ RecordingFinished
    \/ UnhandledEvent
    \/ OriginateResponse
    \/ RingTimeout

Init == content = <<>> /\ result = NoResult /\ EngineInit

(* The outbound leg of a transfer.  Originate is sent with app=<app_name>,  *)
(* so the channel it creates enters the application when the extension     *)
(* answers, which it can do while it rings: the bus then sends a            *)
(* StasisStart for the new channel.                                         *)
LegStarted ==
    \/ \E ch \in OtherChannels : ch \in DOMAIN sessions
    \/ \E i \in 1..Len(inbox) :
           inbox[i].type = "StasisStart" /\ inbox[i].ch \in OtherChannels

LegAnswers ==
    /\ ws = "connected"
    /\ handler.pc = "ring_wait"
    /\ Len(inbox) < MaxInbox
    /\ \E ch \in OtherChannels :
           /\ CanSend(Event("StasisStart", ch, "channel:"))
           /\ inbox' = Append(inbox, Event("StasisStart", ch, "channel:"))
    /\ UNCHANGED <<sessions, files, created, notified, issued, log, ws, handler,
                   prewarm_i, intent_vars, tts_vars>>

\* the bus is followed up to the StasisStart of an outbound leg
BusSendsBeforeLeg == ~LegStarted /\ BusSends

NextLeg ==
    \/ PreWarm
    \/ Connect
    \/ ConnectFails
    \/ ConnectionError
    \/ ConnectionClosed
    \/ BackoffDone
    \/ BusSendsBeforeLeg
    \/ LegAnswers
    \/ StasisStart
    \/ StasisEnd
    \/ ChannelHangupRequest
    \/ ChannelDestroyed
    \/ PlaybackFinished
    \/ RecordingFinished
    \/ UnhandledEvent
    \/ OriginateResponse
    \/ RingTimeout

SpecLeg == Init /\ [][NextLeg]_vars

Spec == Init /\ [][Next]_vars

(***************************************************************************)
(* Specifications                                                          *)
(***************************************************************************)
InitIntent == IntentInit /\ TtsInit /\ EngineIdle

NextIntent == test_intent /\ UNCHANGED <<files, tts_vars, engine_vars>>

SpecIntent == InitIntent /\ [][NextIntent]_vars

InitTTS == content = <<>> /\ result = NoResult /\ TtsInit /\ EngineIdle

NextTTS == TtsNext /\ UNCHANGED <<intent_vars, engine_vars>>

SpecTTS == InitTTS /\ [][NextTTS]_vars

(***************************************************************************)
(* Claims about the TTS cache (SpecTTS)                                    *)
(***************************************************************************)
CallsOf(t) == {c \in Callers : tts[c].pc # "idle" /\ tts[c].text = t}

\* C3: n overlapping text_to_speech(t) calls on an empty cache (none started
\* after another had ended, all with the default use_cache) that have all
\* returned caused exactly one upstream synthesis request for t.
C3_SingleFlight ==
    \A t \in TtsTexts :
        ( /\ CallsOf(t) # {}
          /\ \A c \in CallsOf(t) :
                 tts[c].pc = "returned" /\ tts[c].use_cache /\ ~tts[c].late )
        => synth_count[t] = 1

\* C4: whenever text_to_speech returns a path, the file at that path holds
\* the whole synthesized stream at that moment.
C4_NoPartialPath ==
    [][ \A c \in Callers :
            (tts[c].pc # "returned" /\ tts'[c].pc = "returned")
            => files'[tts'[c].text] = FullFile ]_vars

\* C5: once some text_to_speech(t) has returned, every call of
\* text_to_speech(t, use_cache=True) made afterwards returns at once with the
\* same path and sends no upstream synthesis request.
C5_Idempotent ==
    [][ \A c \in Callers :
            ( /\ tts[c].pc = "idle" /\ tts'[c].pc # "idle"
              /\ tts'[c].use_cache
              /\ \E d \in Callers :
                     tts[d].pc = "returned" /\ tts[d].text = tts'[c].text )
            => /\ tts'[c].pc = "returned"
               /\ \A d \in Callers :
                      (tts[d].pc = "returned" /\ tts[d].text = tts'[c].text)
                      => tts'[c].path = tts[d].path
               /\ synth_count' = synth_count ]_vars

\* a second call for a text was served from the cache after the first call
\* had synthesized, written and returned it
C5_Witness ==
    \E c, d \in Callers :
        /\ c # d
        /\ tts[c].pc = "returned" /\ tts[d].pc = "returned"
        /\ tts[c].text = tts[d].text
        /\ tts[d].offset = NumChunks /\ ~tts[d].late
        /\ tts[c].late /\ tts[c].use_cache /\ tts[c].offset = 0
        /\ tts[c].path = tts[d].path
        /\ synth_count[tts[c].text] = 1

(***************************************************************************)
(* Claims about the classifier (SpecIntent)                                *)
(***************************************************************************)
Classified == result # NoResult

\* name occurs in text when letter case is ignored
OccursIgnoringCase(name, text) ==
    \E from \in 1..(Len(text) + 1) :
        /\ from + Len(name) - 1 <= Len(text)
        /\ \A k \in 1..Len(name) : lower(text[from + k - 1]) = lower(name[k])

Contained(text) ==
    {i \in 1..Len(Services) : OccursIgnoringCase(Services[i].name, text)}

FirstContained(text) ==
    CHOOSE i \in Contained(text) : \A j \in Contained(text) : i <= j

\* t is s without its leading and trailing white space
IsStripped(s, t) ==
    \E from \in 1..(Len(s) + 1) :
        /\ from + Len(t) - 1 <= Len(s)
        /\ \A k \in 1..Len(t) : s[from + k - 1] = t[k]
        /\ \A k \in 1..Len(s) :
               (k < from \/ k > from + Len(t) - 1) => isspace(s[k])
        /\ t # <<>> => ~isspace(t[1]) /\ ~isspace(t[Len(t)])

\* C6 as claimed: a service is returned iff a configured name occurs in the
\* reply ignoring case, it is the first such service of the directory, and
\* without a match the response is the model reply unchanged.
C6_Original ==
    Classified =>
        /\ (result.service # None) <=> (Contained(content) # {})
        /\ Contained(content) # {}
               => result.service = Services[FirstContained(content)]
        /\ Contained(content) = {}
               => result.service = None /\ result.response = content

\* C6 amended: as C6, except that without a match the response is the model
\* reply with its leading and trailing white space removed.
C6_Classify ==
    Classified =>
        /\ (result.service # None) <=> (Contained(content) # {})
        /\ Contained(content) # {}
               => result.service = Services[FirstContained(content)]
        /\ Contained(content) = {}
               => result.service = None /\ IsStripped(content, result.response)

\* a reply holding both service names in other letter case, classified as the
\* first service of the directory
C6_Witness ==
    /\ Classified
    /\ Cardinality(Contained(content)) = 2
    /\ ~str_in(Services[1].name, content)
    /\ result.service = Services[1]

(***************************************************************************)
(* Claims about the dialog engine (Spec)                                   *)
(***************************************************************************)
\* this step is handle_event reading an event of this type for channel ch
Handling(type, ch) ==
    /\ ws = "connected" /\ handler = Idle /\ inbox # <<>>
    /\ Head(inbox) = Event(type, ch, "channel:")
    /\ inbox' = Tail(inbox) \/ ws' = "backoff"

\* the CallSession object of channel ch is the same before and after the step
SameSession(ch) ==
    /\ ch \in DOMAIN sessions /\ ch \in DOMAIN sessions'
    /\ sessions[ch].sid = sessions'[ch].sid

Sent(reqs, r) == \E i \in 1..Len(reqs) : reqs[i] = r

PlayOf(ch, text) == Req("play", ch, sound_path(cache_path(text)))

Last(seq) == seq[Len(seq)]

DestroyedPending(ch) ==
    \E i \in 1..Len(inbox) : inbox[i] = Event("ChannelDestroyed", ch, "channel:")

\* C2: when ChannelDestroyed arrives for a channel whose transfer is in its
\* ring wait, the wait does not end in the transition to collecting_message
\* and no collection opener is played on the channel.
C2_WatchdogCancelled ==
    [][ \A ch \in Channels :
            (handler = [pc |-> "ring_wait", ch |-> ch] /\ DestroyedPending(ch)) =>
            /\ ~(ch \in DOMAIN sessions'
                 /\ sessions'[ch].state = "collecting_message")
            /\ ~Sent(issued', PlayOf(ch, Opener))
      ]_vars

\* C7: an unclear classification raises retry_count by one; after the first
\* and the second the session is still in waiting_service_choice, after the
\* third it is in collecting_message, and a Record issued for a session whose
\* retry_count is 3 finds it in collecting_message.
C7_ThreeStrikes ==
    [][ \A ch \in Channels :
            SameSession(ch) =>
            LET a == sessions[ch]
                b == sessions'[ch]
            IN  /\ a.retry_count # b.retry_count =>
                       /\ Handling("RecordingFinished", ch)
                       /\ a.state = "waiting_service_choice"
                       /\ b.retry_count = a.retry_count + 1
                       /\ b.retry_count \in {1, 2} => b.state = "waiting_service_choice"
                       /\ b.retry_count = 3 => b.state = "collecting_message"
                       /\ b.retry_count <= 3
                /\ ( /\ Handling("PlaybackFinished", ch)
                     /\ b.retry_count = 3
                     /\ Sent(issued', Req("record", ch, <<>>)) )
                   => b.state = "collecting_message"
      ]_vars

\* a Record was issued for a session after its third unclear classification
C7_Witness ==
    \E ch \in DOMAIN sessions :
        /\ sessions[ch].retry_count = 3
        /\ sessions[ch].state = "collecting_message"
        /\ sessions[ch].target_service = None
        /\ Sent(issued, Req("record", ch, <<>>))

\* C8: the webhook is posted at most once per CallSession, and only in the
\* handling of a RecordingFinished whose collection step reported complete
\* (the session goes from collecting_message to ending and the closer is its
\* last turn).
C8_NotifyOnce ==
    [][ \A sid \in 1..MaxCalls :
            /\ notified'[sid] <= 1
            /\ notified'[sid] # notified[sid] =>
                   \E ch \in Channels :
                       /\ SameSession(ch) /\ sessions[ch].sid = sid
                       /\ Handling("RecordingFinished", ch)
                       /\ sessions[ch].state = "collecting_message"
                       /\ sessions'[ch].state = "ending"
                       /\ Last(sessions'[ch].conversation).content = Closer
                       /\ Sent(issued', Req("notify", ch, <<>>))
      ]_vars

\* a notified session in ending handled a later RecordingFinished
C8_Witness ==
    \E ch \in DOMAIN sessions :
        /\ sessions[ch].state = "ending"
        /\ notified[sessions[ch].sid] = 1
        /\ issued = <<Req("transcribe", 0, <<>>)>>

\* the next event to handle is a PlaybackFinished or RecordingFinished that
\* on_playback_finished / on_recording_finished must drop
DroppedEvent ==
    /\ ws = "connected" /\ handler = Idle /\ inbox # <<>>
    /\ Head(inbox).type \in {"PlaybackFinished", "RecordingFinished"}
    /\ \/ Head(inbox).target_uri # "channel:"
       \/ Head(inbox).ch \notin DOMAIN sessions

\* C9: handling a PlaybackFinished or RecordingFinished whose target_uri does
\* not start with "channel:", or whose channel has no session, changes no
\* session and sends no request.
C9_Dropped ==
    [][ (DroppedEvent /\ (inbox' = Tail(inbox) \/ ws' # ws)) =>
            /\ sessions' = sessions
            /\ issued' = <<>>
            /\ files' = files
            /\ notified' = notified
            /\ created' = created
            /\ ws' = ws /\ handler' = Idle /\ log' = {}
      ]_vars

\* a RecordingFinished with a bridge target_uri is about to be handled while
\* the session of that id waits for the caller's service choice
C9_Witness ==
    /\ DroppedEvent
    /\ Head(inbox).type = "RecordingFinished"
    /\ Head(inbox).target_uri = "bridge:"
    /\ Head(inbox).ch \in DOMAIN sessions
    /\ sessions[Head(inbox).ch].state = "waiting_service_choice"

\* C10: when the handling of a RecordingFinished raises and the except clause
\* runs, the retry phrase is played, the session is in the state it had
\* before, and that state is one in which PlaybackFinished issues a Record.
C10_RetryKeepsState ==
    [][ \A ch \in Channels :
            ( /\ Handling("RecordingFinished", ch)
              /\ SameSession(ch)
              /\ "recording_processing_error" \in log' )
            => /\ Sent(issued', PlayOf(ch, RetryPhrase))
               /\ sessions'[ch].state = sessions[ch].state
               /\ sessions'[ch].state \in
                      {"greeting", "waiting_service_choice", "collecting_message"}
      ]_vars

\* this step is the handler of channel ch resuming from where it was suspended
Resumes(pc, ch) == handler = [pc |-> pc, ch |-> ch] /\ handler' # handler

\* C11: when Originate fails (a non-2xx answer or an error) the session goes
\* from transferring to collecting_message and the opener is played without
\* the ring wait; when Originate is answered with a 2xx status the ring wait
\* is taken.
C11_OriginateOutcome ==
    [][ \A ch \in Channels :
            Resumes("originate", ch) =>
            LET failed == "transfer_error" \in log' \/ status_field(500) \in log'
                succeeded == \/ "transfer_initiated" \in log'
                             \/ status_field(204) \in log'
            IN  /\ failed =>
                       /\ SameSession(ch)
                       /\ sessions[ch].state = "transferring"
                       /\ sessions'[ch].state = "collecting_message"
                       /\ Sent(issued', PlayOf(ch, Opener))
                       /\ handler'.pc # "ring_wait"
                /\ succeeded => handler' = [pc |-> "ring_wait", ch |-> ch]
      ]_vars

OpenerTurn == [role |-> "assistant", content |-> Opener]

\* C12: when the ring wait ends and the session is still in the table and in
\* transferring, it goes to collecting_message with the opener as its whole
\* conversation; when it is no longer in transferring, nothing changes.
C12_RingExpiry ==
    [][ \A ch \in Channels :
            Resumes("ring_wait", ch) =>
            IF ch \in DOMAIN sessions /\ sessions[ch].state = "transferring"
            THEN /\ SameSession(ch)
                 /\ sessions'[ch].state = "collecting_message"
                 /\ sessions'[ch].conversation = <<OpenerTurn>>
            ELSE sessions' = sessions /\ issued' = <<>>
      ]_vars

PlayOrRecord(reqs, ch) ==
    \E i \in 1..Len(reqs) : reqs[i].ch = ch /\ reqs[i].op \in {"play", "record"}

\* C13: no Play or Record is issued on a channel while an earlier Play or
\* Record on it has not had its terminal event handled, unless the channel
\* was hung up.  No event is handled while a handler is suspended, so on the
\* transfer path: a handler that issued a Play on the channel in the step
\* that suspended it issues no Play or Record on that channel when it
\* resumes, unless it issued a Hangup.
C13_OnePlayAtATime ==
    [][ \A ch \in Channels :
            ( /\ handler.pc # "idle" /\ handler.ch = ch /\ handler' # handler
              /\ PlayOrRecord(issued, ch)
              /\ PlayOrRecord(issued', ch) )
            => Sent(issued', Req("hangup", ch, <<>>))
      ]_vars

\* C14: a channel enters the session table only in the handling of its
\* StasisStart and leaves it only in the handling of its ChannelDestroyed;
\* after a StasisStart it is in the table and after a ChannelDestroyed it is
\* not, whatever the state of the session was; StasisEnd and
\* ChannelHangupRequest leave the table and every session as they were.
C14_SessionTable ==
    [][ \A ch \in Channels :
            /\ (ch \notin DOMAIN sessions /\ ch \in DOMAIN sessions')
                   => Handling("StasisStart", ch)
            /\ (ch \in DOMAIN sessions /\ ch \notin DOMAIN sessions')
                   => Handling("ChannelDestroyed", ch)
            /\ Handling("StasisStart", ch) => ch \in DOMAIN sessions'
            /\ Handling("ChannelDestroyed", ch) => ch \notin DOMAIN sessions'
            /\ (Handling("StasisEnd", ch) \/ Handling("ChannelHangupRequest", ch))
                   => sessions' = sessions
      ]_vars

\* a call was started and its session has been removed again
C14_Witness ==
    /\ ws = "connected"
    /\ created > 0
    /\ DOMAIN sessions = {}

\* the inbox after the step is the inbox before it, possibly with one more
\* event of the bus at its end (the StasisStart of an outbound leg included)
NothingRead ==
    \/ inbox' = inbox
    \/ \E ev \in Events : inbox' = Append(inbox, ev)
    \/ \E ch \in OtherChannels :
           inbox' = Append(inbox, Event("StasisStart", ch, "channel:"))

HandlesHead ==
    \/ StasisStart
    \/ StasisEnd
    \/ ChannelHangupRequest
    \/ ChannelDestroyed
    \/ PlaybackFinished
    \/ RecordingFinished
    \/ UnhandledEvent

\* C16: while the handler of an event of channel a is suspended, an event
\* of another channel that has been delivered can be handled before the
\* handler of a resumes.
C16_NoBlocking ==
    \A a \in Channels :
        ( /\ ws = "connected"
          /\ handler.pc # "idle" /\ handler.ch = a
          /\ inbox # <<>> /\ Head(inbox).ch # a )
        => ENABLED HandlesHead

\* C17: the subscriber never stops: every end of a connection (an error, a
\* failed connect, a close by the peer) leads to the backoff sleep and from
\* there to a new connection attempt; and a step of the subscriber that is
\* not the handling of an event leaves the session table as it was.
C17_Reconnect ==
    [][ /\ (ws = "connected" /\ ws' # ws) => ws' = "backoff"
        /\ (ws = "connecting" /\ ws' # ws) => ws' \in {"connected", "backoff"}
        /\ (ws = "backoff" /\ ws' # ws) => ws' = "connecting"
        /\ ( /\ ws' # ws
             /\ ws # "connected" \/ (handler = Idle /\ inbox = <<>>) )
           => sessions' = sessions
      ]_vars

\* C18: a synthesis that fails during the pre-warm does not stop the
\* start-up: the next phrase is attempted, and after the last one the engine
\* connects to the event stream.
C18_PrewarmNonFatal ==
    [][ (ws = "prewarm" /\ <<ws, prewarm_i, files, issued>>'
                               # <<ws, prewarm_i, files, issued>>) =>
            /\ prewarm_i' = prewarm_i + 1
            /\ ws' = IF prewarm_i = Len(common_messages)
                     THEN "connecting" ELSE "prewarm"
      ]_vars

\* the chat call of the classification raised in this step: the except
\* clause of on_recording_finished ran right after the chat request
ChatFailed(ch) ==
    /\ "recording_processing_error" \in log'
    /\ Len(issued') >= 3
    /\ issued'[2] = Req("chat", 0, <<"intent">>)
    /\ issued'[3] = PlayOf(ch, RetryPhrase)

\* C19: when the chat call of the classification fails for a session in
\* waiting_service_choice, retry_count grows by one, and the session is in
\* collecting_message once it has reached 3.
C19_ChatFailureCounts ==
    [][ \A ch \in Channels :
            ( /\ Handling("RecordingFinished", ch)
              /\ SameSession(ch)
              /\ sessions[ch].state = "waiting_service_choice"
              /\ ChatFailed(ch) )
            => /\ sessions'[ch].retry_count = sessions[ch].retry_count + 1
               /\ sessions'[ch].retry_count >= RetryLimit
                      => sessions'[ch].state = "collecting_message"
      ]_vars

\* C20: when the reply to a collection step is not JSON, the session stays
\* in collecting_message, no webhook is posted, and the generic question is
\* the last turn of the conversation, as assistant, and is played.
C20_NotJsonIsIncomplete ==
    [][ \A ch \in Channels :
            ( /\ Handling("RecordingFinished", ch)
              /\ SameSession(ch)
              /\ sessions[ch].state = "collecting_message"
              /\ "JSONDecodeError" \in log' )
            => /\ sessions'[ch].state = "collecting_message"
               /\ notified' = notified
               /\ Last(sessions'[ch].conversation)
                      = [role |-> "assistant", content |-> GenericQuestion]
               /\ Sent(issued', PlayOf(ch, GenericQuestion))
      ]_vars

\* C21: in every session the roles of the conversation alternate: no two
\* adjacent turns have the same role.
C21_RolesAlternate ==
    \A ch \in DOMAIN sessions :
        \A i \in 1..(Len(sessions[ch].conversation) - 1) :
            sessions[ch].conversation[i].role
                # sessions[ch].conversation[i + 1].role

\* C22: an exception raised in the handling of an event stays with that
\* event: after the step the subscriber is still connected and the events
\* delivered after the handled one are still waiting to be handled.
C22_Contained ==
    [][ /\ (ws = "connected" /\ handler = Idle /\ inbox # <<>> /\ ~NothingRead)
               => ws' = "connected" /\ inbox' = Tail(inbox)
        /\ (handler.pc # "idle" /\ handler' # handler)
               => ws' = "connected" /\ inbox' = inbox
      ]_vars

\* C23: a field of message_info that holds a non-empty value keeps it when a
\* later collection step gives the field an empty value or omits it.
C23_MergeKeepsValues ==
    [][ \A ch \in Channels :
            SameSession(ch) =>
            \A k \in DOMAIN sessions[ch].message_info :
                sessions[ch].message_info[k] # "" =>
                    /\ k \in DOMAIN sessions'[ch].message_info
                    /\ sessions'[ch].message_info[k] # ""
      ]_vars

AllChannels == Channels \cup OtherChannels

\* this step is handle_event reading the StasisStart of channel ch
HandlingStart(ch) ==
    /\ ws = "connected" /\ handler = Idle /\ inbox # <<>>
    /\ Head(inbox) = Event("StasisStart", ch, "channel:")
    /\ ~NothingRead

\* the step installed a new CallSession for ch, as the constructor leaves it
FreshSession(ch) ==
    /\ created' = created + 1
    /\ ch \in DOMAIN sessions'
    /\ sessions'[ch] = NewSession(created')
    /\ \A c \in DOMAIN sessions : sessions[c].sid # sessions'[ch].sid

C25_HangupOnlyWhenEnding ==
    [][ \A ch \in AllChannels :
            ( /\ Sent(issued', Req("hangup", ch, <<>>))
              /\ issued' # issued \/ ~NothingRead \/ handler' # handler )
            =>  /\ ws = "connected" /\ handler = Idle /\ inbox # <<>>
                /\ Head(inbox) = Event("PlaybackFinished", ch, "channel:")
                /\ ~NothingRead
                /\ ch \in DOMAIN sessions
                /\ sessions[ch].state = "ending"
                /\ sessions[ch].conversation # <<>>
                /\ Last(sessions[ch].conversation)
                       = [role |-> "assistant", content |-> Closer]
      ]_vars

\* the engine hung up a call whose collection was complete and notified
C25_Witness ==
    \E ch \in DOMAIN sessions :
        /\ Sent(issued, Req("hangup", ch, <<>>))
        /\ sessions[ch].state = "ending"
        /\ notified[sessions[ch].sid] = 1

====
